---- MODULE Spec2Model ----
(***************************************************************************)
(* highlander: a validating admission webhook meant to allow at most one   *)
(* instance of a resource type per namespace (src/webhook.go).             *)
(*                                                                         *)
(* The model holds the Webhook value (w), the routes of the webhook        *)
(* server, the object store the webhook lists from, and the Handle calls   *)
(* that wait for the store.  A Handle call that needs no list is one step  *)
(* (HandleReturns).  A call that lists is two steps: HandleCall runs       *)
(* Handle up to the point where ValidateCreate waits in cli.List, and      *)
(* ListReturns is the store's answer followed by the rest of               *)
(* ValidateCreate and of Handle.  The control plane commits an admitted    *)
(* create, marks instances for deletion and purges them.                   *)
(*                                                                         *)
(* What a step returned to its caller is held in `response`, and what it   *)
(* logged in `logged`, for the one state the step leads to.                *)
(***************************************************************************)
EXTENDS Naturals, Sequences, FiniteSets

\* Number of Handle calls that may wait for the store at once.
MaxCalls == 2
\* Number of instances of the protected type the store can hold.
MaxInstances == 2

Calls == 1..MaxCalls
Namespaces == {"ns1", "ns2"}
\* ListOptions.Namespace "" lists across all namespaces.
AllNamespaces == ""

Nil == "nil"

\* Strings the code transforms are sequences of characters.
ZeroGVK == [Group |-> <<>>, Version |-> <<>>, Kind |-> <<>>]
\* The GroupVersionKind the scheme knows for the object given to NewFor.
ObjectGVK == [Group |-> <<"a", ".", "b">>, Version |-> <<"v", "1">>, Kind |-> <<"W">>]
\* The kinds a request may carry: the protected one, the empty one, and one
\* differing from the protected one in the group, the version or the kind alone.
RequestKinds ==
    { ObjectGVK, ZeroGVK,
      [ObjectGVK EXCEPT !.Group = <<"a", "-", "b">>],
      [ObjectGVK EXCEPT !.Version = <<"v", "2">>],
      [ObjectGVK EXCEPT !.Kind = <<"w">>] }

Create == "CREATE"
Operations == {Create, "UPDATE", "DELETE", "CONNECT"}

\* admission.Request: the fields Handle has at hand.  Creates come with every
\* kind; the other operations with the protected kind and with the empty one.
Requests ==
    {r \in [Operation : Operations, Kind : RequestKinds, Namespace : Namespaces] :
        r.Operation = Create \/ r.Kind \in {ObjectGVK, ZeroGVK}}

\* The namespaces the object given to NewFor may carry.
ObjectNamespaces == {AllNamespaces, "ns1"}

ErrThereCanBeOnlyOne == "there can be only one instance of this object per namespace"
StatusBadRequest == 400

\* Failures of the store's list operation.
ErrNoKindMatch == "no matches for kind"
ErrCanceled == "context canceled"
StoreErrors == {"connection refused", "forbidden"}

VARIABLES
    w,          \* the Webhook: object, log, gvk, mgr, cli
    routes,     \* paths registered with the manager's webhook server
    store,      \* store[n]: the protected type's instances in namespace n
    pc,         \* pc[c]: "idle", "listing" (blocked in cli.List), "admitted"
    req,        \* req[c]: the request of call c
    query,      \* query[c]: the list query call c has pending
    response,   \* what the step into this state returned to its caller
    logged      \* what the step into this state wrote to w.log

vars == <<w, routes, store, pc, req, query, response, logged>>

----------------------------------------------------------------------------
\* Pure helpers

\* strings.ToLower on the characters the model uses.
ToLower(s) ==
    [i \in 1..Len(s) |-> IF s[i] = "W" THEN "w" ELSE IF s[i] = "A" THEN "a" ELSE s[i]]

\* strings.ReplaceAll(s, old, new) for single characters.
ReplaceAll(s, old, new) ==
    [i \in 1..Len(s) |-> IF s[i] = old THEN new ELSE s[i]]

\* A slip in the derivation: the kind is left out of the path.
generateValidatePathNoKind(gvk) ==
    <<"/", "highlander", "-">> \o ReplaceAll(gvk.Group, ".", "-") \o <<"-">>
        \o gvk.Version

generateValidatePath(gvk) ==
    <<"/", "highlander", "-">> \o ReplaceAll(gvk.Group, ".", "-") \o <<"-">>
        \o gvk.Version \o <<"-">> \o ToLower(gvk.Kind)

\* admission.Allowed, admission.Denied, admission.Errored
Allowed(msg) == [Allowed |-> TRUE, Code |-> 200, Message |-> msg]
Denied(msg) == [Allowed |-> FALSE, Code |-> 403, Message |-> msg]
Errored(code, err) == [Allowed |-> FALSE, Code |-> code, Message |-> err]

----------------------------------------------------------------------------
\* The object store (the control plane's API server, behind client.Client)

\* An instance as the list returns it: its namespace and whether it carries a
\* deletion timestamp.
Items == [Namespace : Namespaces, deleting : BOOLEAN]

EmptyNamespace == [live |-> 0, deleting |-> 0]

RECURSIVE Population(_)
Population(S) ==
    IF S = {} THEN 0
    ELSE LET n == CHOOSE x \in S : TRUE
         IN  store[n].live + store[n].deleting + Population(S \ {n})

\* ListOptions.Namespace: one namespace, or every namespace when it is empty.
InScope(n, ns) == ns = AllNamespaces \/ n = ns

\* How many instances like `it` a list over namespace ns returns.
Stored(it, ns) ==
    IF InScope(it.Namespace, ns)
    THEN IF it.deleting THEN store[it.Namespace].deleting ELSE store[it.Namespace].live
    ELSE 0

RECURSIVE SumOver(_, _)
SumOver(S, ns) ==
    IF S = {} THEN 0
    ELSE LET it == CHOOSE x \in S : TRUE
         IN  Stored(it, ns) + SumOver(S \ {it}, ns)

Count(s, it) == Cardinality({i \in 1..Len(s) : s[i] = it})

\* The lists the store may return for namespace ns: the instances in scope, in
\* any order.
Snapshots(ns) ==
    LET present == {it \in Items : Stored(it, ns) > 0}
    IN  {s \in [1..SumOver(present, ns) -> present] :
            \A it \in present : Count(s, it) = Stored(it, ns)}

\* The states the context the caller gave to Handle may be in when the list
\* returns: still active, or cancelled (or past its deadline) while the list
\* was pending.
ContextStates == {"active", "canceled"}

\* The error of the context a list was given: context.Background() is never
\* done; the context of the request is done once the caller cancelled it.
ContextErr(k, cx) ==
    IF k = "Background" THEN Nil
    ELSE IF cx = "canceled" THEN ErrCanceled ELSE Nil

\* The answers cli.List may give to the query of call c when the caller's
\* context is in state cx: a list given a context that is done is aborted.
ListResults(c, cx) ==
    IF ContextErr(query[c].ctx, cx) # Nil
    THEN {[err |-> ContextErr(query[c].ctx, cx), items |-> <<>>]}
    ELSE IF query[c].gvk # ObjectGVK
    THEN {[err |-> ErrNoKindMatch, items |-> <<>>]}
    ELSE {[err |-> e, items |-> <<>>] : e \in StoreErrors}
         \cup {[err |-> Nil, items |-> s] : s \in Snapshots(query[c].Namespace)}

----------------------------------------------------------------------------
\* The Webhook

NoRequest == [Operation |-> Nil, Kind |-> ZeroGVK, Namespace |-> Nil]
NoQuery == [gvk |-> ZeroGVK, Namespace |-> Nil, ctx |-> Nil]
NoResult == [err |-> Nil, items |-> <<>>]
NoResponse == [kind |-> "none"]

\* The managers SetupWithManager may be given: the scheme of the first knows
\* the object's type, the scheme of the second does not.
Managers == {[name |-> "mgr", known |-> TRUE], [name |-> "mgr0", known |-> FALSE]}

\* NewFor(apiType)
NewFor(apiType) ==
    [object |-> apiType, log |-> Nil, gvk |-> ZeroGVK, mgr |-> Nil, cli |-> Nil]

\* apiutil.GVKForObject(w.object, mgr.GetScheme())
GVKForObject(mgr) ==
    IF mgr.known THEN [gvk |-> ObjectGVK, err |-> Nil]
    ELSE [gvk |-> ZeroGVK, err |-> "no kind is registered"]

\* A slip in the operation test: updates are checked like creates.
IsCreateOrUpdate(r) == r.Operation \in {Create, "UPDATE"}

\* Handle, lines 37-39: only creates are checked.
IsCreate(r) == r.Operation = Create

\* A slip in the kind test: the version is not compared.
KindMatchesNoVersion(r) ==
    ~ (r.Kind.Group # w.gvk.Group \/ r.Kind.Kind # w.gvk.Kind)

\* Handle, lines 40-45: the request is for the webhook's own kind.
KindMatches(r) ==
    ~ (r.Kind.Group # w.gvk.Group \/ r.Kind.Version # w.gvk.Version
       \/ r.Kind.Kind # w.gvk.Kind)

\* The context ValidateCreate hands to cli.List.
ListContext == "Background"

\* The namespace ValidateCreate lists.
ListNamespace(r) == w.object.Namespace

\* ValidateCreate, lines 81-85: the list query.
ValidateCreateQuery(r) ==
    [gvk |-> w.gvk, Namespace |-> ListNamespace(r), ctx |-> ListContext]

\* A slip in the rule: the two outcomes of the length test are swapped.
CheckItemsSwapped(items) ==
    IF Len(items) > 0 THEN Nil ELSE ErrThereCanBeOnlyOne

\* A slip in the rule: the last returned instance is looked at, not the first.
CheckItemsLast(items) ==
    IF Len(items) > 0
    THEN IF items[Len(items)].deleting THEN Nil ELSE ErrThereCanBeOnlyOne
    ELSE Nil

\* ValidateCreate, lines 92-99: the rule applied to the returned items.
CheckItems(items) ==
    IF Len(items) > 0
    THEN IF items[1].deleting THEN Nil ELSE ErrThereCanBeOnlyOne
    ELSE Nil

\* ValidateCreate, lines 86-99: the error it returns for the list's result.
ValidateCreate(res) ==
    IF res.err # Nil THEN res.err ELSE CheckItems(res.items)

\* ValidateCreate, lines 86-91: what it logs for the list's result.
ValidateCreateLog(res, q) ==
    IF res.err # Nil
    THEN << [err |-> res.err, msg |-> "Failed to list objects in namespace",
             namespace |-> q.Namespace] >>
    ELSE << >>

\* A slip in the mapping: every error is reported as a denial.
RespondDenied(err) ==
    IF err # Nil THEN Denied(err) ELSE Allowed("")

\* Handle, lines 47-55: the response for ValidateCreate's error.
Respond(err) ==
    IF err # Nil
    THEN IF err = ErrThereCanBeOnlyOne THEN Denied(err)
         ELSE Errored(StatusBadRequest, err)
    ELSE Allowed("")

\* What the runtime gets back from a Handle call: the request, whether a list
\* was issued and what it returned, the response, and the state of the caller's
\* context on return.
Returned(cx, r, listed, res, v) ==
    [kind |-> "returned", req |-> r, listed |-> listed, result |-> res,
     verdict |-> v, ctx |-> cx]

----------------------------------------------------------------------------
\* Initial state: NewFor has built the webhook, nothing is stored.

Init ==
    /\ w \in {NewFor([Namespace |-> n]) : n \in ObjectNamespaces}
    /\ routes = {}
    /\ store = [n \in Namespaces |-> EmptyNamespace]
    /\ pc = [c \in Calls |-> "idle"]
    /\ req = [c \in Calls |-> NoRequest]
    /\ query = [c \in Calls |-> NoQuery]
    /\ response = NoResponse
    /\ logged = << >>

\* A slip in the setup: the handler is registered before the lookup's error is
\* looked at.
SetupWithManagerRegistering(mgr) ==
    /\ w.mgr = Nil
    /\ LET found == GVKForObject(mgr)
       IN  /\ w' = [w EXCEPT !.mgr = mgr.name, !.cli = "client", !.log = "logger",
                             !.gvk = found.gvk]
           /\ routes' = routes \cup {generateValidatePath(found.gvk)}
    /\ response' = [kind |-> "setup", err |-> GVKForObject(mgr).err]
    /\ logged' = << >>
    /\ UNCHANGED <<store, pc, req, query>>

\* SetupWithManager(mgr), called once when the process starts.
SetupWithManager(mgr) ==
    /\ w.mgr = Nil
    /\ LET found == GVKForObject(mgr)
       IN  /\ w' = [w EXCEPT !.mgr = mgr.name, !.cli = "client", !.log = "logger",
                             !.gvk = found.gvk]
           /\ routes' = IF found.err # Nil THEN routes
                        ELSE routes \cup {generateValidatePath(found.gvk)}
    /\ response' = [kind |-> "setup", err |-> GVKForObject(mgr).err]
    /\ logged' = << >>
    /\ UNCHANGED <<store, pc, req, query>>

\* A slip in Handle: a webhook without client allows the request instead of
\* going on to ValidateCreate.
HandleReturnsGuarded(r) ==
    /\ ~ IsCreate(r) \/ ~ KindMatches(r) \/ w.cli = Nil
    /\ response' = Returned("active", r, FALSE, NoResult, Allowed(""))
    /\ logged' = << >>
    /\ UNCHANGED <<w, routes, store, pc, req, query>>

\* Handle(ctx, r) for a request it answers without a list query: one that is
\* not a create or not of the webhook's kind (lines 37-45), and a create on a
\* webhook whose client was never set, where the call of List panics.
HandleReturns(r) ==
    /\ ~ IsCreate(r) \/ ~ KindMatches(r) \/ w.cli = Nil
    /\ response' = IF ~ IsCreate(r) \/ ~ KindMatches(r)
                   THEN Returned("active", r, FALSE, NoResult, Allowed(""))
                   ELSE [kind |-> "panicked", req |-> r]
    /\ logged' = << >>
    /\ UNCHANGED <<w, routes, store, pc, req, query>>

\* A slip in Handle: the webhook keeps the namespace of the request it
\* checks as the namespace of its own object, so later lists are scoped by it.
HandleCallRebinding(c, r) ==
    /\ pc[c] = "idle"
    /\ IsCreate(r) /\ KindMatches(r) /\ w.cli # Nil
    /\ pc' = [pc EXCEPT ![c] = "listing"]
    /\ req' = [req EXCEPT ![c] = r]
    /\ query' = [query EXCEPT ![c] = ValidateCreateQuery(r)]
    /\ w' = [w EXCEPT !.object.Namespace = r.Namespace]
    /\ response' = NoResponse
    /\ logged' = << >>
    /\ UNCHANGED <<routes, store>>

\* Handle(ctx, r) for a create of the webhook's kind, up to the point where
\* ValidateCreate waits for cli.List; c is the pending call.
HandleCall(c, r) ==
    /\ pc[c] = "idle"
    /\ IsCreate(r) /\ KindMatches(r) /\ w.cli # Nil
    /\ pc' = [pc EXCEPT ![c] = "listing"]
    /\ req' = [req EXCEPT ![c] = r]
    /\ query' = [query EXCEPT ![c] = ValidateCreateQuery(r)]
    /\ response' = NoResponse
    /\ logged' = << >>
    /\ UNCHANGED <<w, routes, store>>

\* A slip in the return from the list: finding the first instance being
\* deleted, the webhook purges it itself instead of only reading.
ListReturnsPurging(c) ==
    /\ pc[c] = "listing"
    /\ \E cx \in ContextStates : \E res \in ListResults(c, cx) :
          LET v == Respond(ValidateCreate(res))
              gone == IF Len(res.items) > 0 /\ res.items[1].deleting
                      THEN {res.items[1].Namespace} ELSE {}
          IN  /\ response' = Returned(cx, req[c], TRUE, res, v)
              /\ pc' = [pc EXCEPT ![c] = IF v.Allowed THEN "admitted" ELSE "idle"]
              /\ req' = [req EXCEPT ![c] = IF v.Allowed THEN req[c] ELSE NoRequest]
              /\ logged' = ValidateCreateLog(res, query[c])
              /\ store' = [n \in Namespaces |->
                             IF n \in gone
                             THEN [store[n] EXCEPT !.deleting = @ - 1]
                             ELSE store[n]]
    /\ query' = [query EXCEPT ![c] = NoQuery]
    /\ UNCHANGED <<w, routes>>

\* A slip in the return from the list: a failed list is logged and issued
\* again instead of being returned.
ListReturnsRetrying(c) ==
    /\ pc[c] = "listing"
    /\ \E cx \in ContextStates : \E res \in ListResults(c, cx) :
          LET v == Respond(ValidateCreate(res))
          IN  IF res.err # Nil
              THEN /\ response' = NoResponse
                   /\ logged' = ValidateCreateLog(res, query[c])
                   /\ UNCHANGED <<pc, req, query>>
              ELSE /\ response' = Returned(cx, req[c], TRUE, res, v)
                   /\ pc' = [pc EXCEPT ![c] = IF v.Allowed THEN "admitted" ELSE "idle"]
                   /\ req' = [req EXCEPT ![c] = IF v.Allowed THEN req[c] ELSE NoRequest]
                   /\ logged' = << >>
                   /\ query' = [query EXCEPT ![c] = NoQuery]
    /\ UNCHANGED <<w, routes, store>>

\* cli.List returns to call c; the rest of ValidateCreate and of Handle.
ListReturns(c) ==
    /\ pc[c] = "listing"
    /\ \E cx \in ContextStates : \E res \in ListResults(c, cx) :
          LET v == Respond(ValidateCreate(res))
          IN  /\ response' = Returned(cx, req[c], TRUE, res, v)
              /\ pc' = [pc EXCEPT ![c] = IF v.Allowed THEN "admitted" ELSE "idle"]
              /\ req' = [req EXCEPT ![c] = IF v.Allowed THEN req[c] ELSE NoRequest]
              /\ logged' = ValidateCreateLog(res, query[c])
    /\ query' = [query EXCEPT ![c] = NoQuery]
    /\ UNCHANGED <<w, routes, store>>

----------------------------------------------------------------------------
\* The control plane

\* The create that call c admitted is committed to the store.
Commit(c) ==
    /\ pc[c] = "admitted"
    /\ Population(Namespaces) < MaxInstances
    /\ store' = [store EXCEPT ![req[c].Namespace].live = @ + 1]
    /\ pc' = [pc EXCEPT ![c] = "idle"]
    /\ req' = [req EXCEPT ![c] = NoRequest]
    /\ response' = NoResponse
    /\ logged' = << >>
    /\ UNCHANGED <<w, routes, query>>

\* The create that call c admitted is rejected later in the admission chain.
Abandon(c) ==
    /\ pc[c] = "admitted"
    /\ pc' = [pc EXCEPT ![c] = "idle"]
    /\ req' = [req EXCEPT ![c] = NoRequest]
    /\ response' = NoResponse
    /\ logged' = << >>
    /\ UNCHANGED <<w, routes, store, query>>

\* A deletion sets the deletion timestamp of an instance of namespace n.
MarkDeleted(n) ==
    /\ store[n].live > 0
    /\ store' = [store EXCEPT ![n].live = @ - 1, ![n].deleting = @ + 1]
    /\ response' = NoResponse
    /\ logged' = << >>
    /\ UNCHANGED <<w, routes, pc, req, query>>

\* An instance of namespace n that is being deleted is purged.
Purge(n) ==
    /\ store[n].deleting > 0
    /\ store' = [store EXCEPT ![n].deleting = @ - 1]
    /\ response' = NoResponse
    /\ logged' = << >>
    /\ UNCHANGED <<w, routes, pc, req, query>>

Next ==
    \/ \E mgr \in Managers : SetupWithManager(mgr)
    \/ \E r \in Requests : HandleReturns(r)
    \/ \E c \in Calls, r \in Requests : HandleCall(c, r)
    \/ \E c \in Calls : ListReturns(c)
    \/ \E c \in Calls : Commit(c)
    \/ \E c \in Calls : Abandon(c)
    \/ \E n \in Namespaces : MarkDeleted(n)
    \/ \E n \in Namespaces : Purge(n)

Spec == Init /\ [][Next]_vars

\* The kinds generateValidatePath is applied to: two groups that differ in a
\* dot, two versions, and kinds that differ in letter case or in a letter.
PathGVKs ==
    [Group : {<<"a", ".", "b">>, <<"a", "-", "b">>},
     Version : {<<"v", "1">>, <<"v", "2">>},
     Kind : {<<"W">>, <<"w">>, <<"X">>}]

\* generateValidatePath is called for g1 and for g2.
DerivePaths(g1, g2) ==
    /\ response' = [kind |-> "paths", gvk1 |-> g1, gvk2 |-> g2,
                    path1 |-> generateValidatePath(g1),
                    path2 |-> generateValidatePath(g2)]
    /\ logged' = << >>
    /\ UNCHANGED <<w, routes, store, pc, req, query>>

PathNext == \E g1, g2 \in PathGVKs : DerivePaths(g1, g2)

\* The derivation of routes alone, applied to pairs of kinds.
PathSpec == Init /\ [][PathNext]_vars

\* Requests handled one at a time: a Handle call starts only when no other
\* call is pending and no admitted create awaits its commit.
NoneInFlight == \A c \in Calls : pc[c] = "idle"

HandleCallSerial(c, r) ==
    /\ NoneInFlight
    /\ HandleCall(c, r)

SerialNext ==
    \/ \E mgr \in Managers : SetupWithManager(mgr)
    \/ \E r \in Requests : HandleReturns(r)
    \/ \E c \in Calls, r \in Requests : HandleCallSerial(c, r)
    \/ \E c \in Calls : ListReturns(c)
    \/ \E c \in Calls : Commit(c)
    \/ \E c \in Calls : Abandon(c)
    \/ \E n \in Namespaces : MarkDeleted(n)
    \/ \E n \in Namespaces : Purge(n)

SerialSpec == Init /\ [][SerialNext]_vars

----------------------------------------------------------------------------
\* Reading a response

IsAllow(v) == v.Allowed
IsDeny(v) == ~ v.Allowed /\ v.Code = 403
IsError(v) == ~ v.Allowed /\ v.Code # 403

\* The step into this state was the return of a Handle call.
HandleReturned == response.kind = "returned"

\* ... of a create request of the webhook's kind, set up with a known type.
CreateReturned ==
    /\ HandleReturned
    /\ w.gvk = ObjectGVK
    /\ response.req.Operation = Create
    /\ response.req.Kind = w.gvk

\* ... whose list query was answered with a list of instances.
ListedReturned ==
    /\ CreateReturned
    /\ response.listed
    /\ response.result.err = Nil

\* ... whose list query failed.
ListFailedReturned ==
    /\ HandleReturned
    /\ response.listed
    /\ response.result.err # Nil

HasLive(items) == \E i \in 1..Len(items) : ~ items[i].deleting

----------------------------------------------------------------------------
\* C1: with requests handled one at a time, no namespace ever holds more than
\* one instance that is not being deleted.  Checked under SerialSpec.
C1_AtMostOneLivePerNamespace ==
    \A n \in Namespaces : store[n].live <= 1

\* C2: a create whose list query succeeds is denied if and only if the
\* returned list holds at least one instance that is not being deleted,
\* wherever in the list that instance stands.
C2_DenyIffSnapshotHasLive ==
    ListedReturned =>
        (IsDeny(response.verdict) <=> HasLive(response.result.items))

\* C3: the check is scoped to the namespace of the request's object: the list
\* query names that namespace, the returned list holds instances of that
\* namespace only, and an instance there that is not being deleted makes the
\* response a denial.
C3_ScopedToRequestNamespace ==
    /\ \A c \in Calls :
          pc[c] = "listing" => query[c].Namespace = req[c].Namespace
    /\ ListedReturned =>
          /\ \A i \in 1..Len(response.result.items) :
                response.result.items[i].Namespace = response.req.Namespace
          /\ store[response.req.Namespace].live > 0 => IsDeny(response.verdict)

\* C4: no mutual exclusion across concurrent calls: a call that reads an empty
\* list is allowed also while another create for the same namespace is
\* pending or allowed and not yet committed, and the other call is left as
\* it was.
C4_NoMutualExclusion ==
    [][ \A c, d \in Calls :
          ( /\ c # d
            /\ pc[c] = "listing"
            /\ pc[d] \in {"listing", "admitted"}
            /\ req[c].Namespace = req[d].Namespace
            /\ pc'[c] # "listing"
            /\ response'.kind = "returned"
            /\ response'.result = [err |-> Nil, items |-> << >>] )
          => /\ IsAllow(response'.verdict)
             /\ pc'[c] = "admitted"
             /\ pc'[d] = pc[d] ]_vars

\* C4, the race: on an empty store, a create of namespace n has been allowed
\* and is not committed, and a second create of n returns allowed from an
\* empty list; both then await their commit.
C4_BothAllowed ==
    \E n \in Namespaces : \E c, d \in Calls :
        /\ c # d
        /\ pc[c] = "admitted" /\ req[c].Namespace = n
        /\ pc[d] = "admitted" /\ req[d].Namespace = n
        /\ \A m \in Namespaces : store[m] = EmptyNamespace
        /\ InScope(n, w.object.Namespace)
        /\ ListedReturned
        /\ response.req.Namespace = n
        /\ response.result.items = << >>
        /\ IsAllow(response.verdict)

\* C5: a call whose context was cancelled while its list was pending returns
\* an error that carries the cancellation.
C5_CancelledReturnsError ==
    (CreateReturned /\ response.ctx = "canceled") =>
        /\ IsError(response.verdict)
        /\ response.verdict.Message = ErrCanceled

\* C6: when the list query fails the response is an error carrying the
\* query's error, neither allowed nor denied, and the failure is logged once
\* with the listed namespace; nothing is logged otherwise.
C6_ListFailureIsError ==
    /\ ListFailedReturned =>
          /\ IsError(response.verdict)
          /\ ~ IsAllow(response.verdict) /\ ~ IsDeny(response.verdict)
          /\ response.verdict.Message = response.result.err
          /\ Len(logged) = 1
          /\ logged[1].err = response.result.err
          /\ logged[1].namespace = w.object.Namespace
    /\ ~ ListFailedReturned => logged = << >>

C6_ListFailed ==
    /\ ListFailedReturned
    /\ CreateReturned
    /\ response.result.err \in StoreErrors

\* C7: a create in a namespace that holds one instance, not being deleted, is
\* denied with exactly the sentinel reason.
C7_OneLiveDenied ==
    ( /\ ListedReturned
      /\ store[response.req.Namespace] = [live |-> 1, deleting |-> 0] )
    => response.verdict = Denied(ErrThereCanBeOnlyOne)

\* C8: a create in a namespace that holds exactly one instance, and that one
\* being deleted, is allowed.
C8_OneDeletingAllowed ==
    ( /\ ListedReturned
      /\ store[response.req.Namespace] = [live |-> 0, deleting |-> 1] )
    => IsAllow(response.verdict)

\* C9: a create in a namespace that holds no instance is allowed, whatever
\* the other namespaces hold.
C9_EmptyNamespaceAllowed ==
    ( /\ ListedReturned
      /\ store[response.req.Namespace] = EmptyNamespace )
    => IsAllow(response.verdict)

\* C10: a request that is not a create is allowed, without any list query,
\* whatever the store holds.
C10_NonCreateAllowed ==
    /\ (HandleReturned /\ response.req.Operation # Create) =>
          /\ response.verdict = Allowed("")
          /\ ~ response.listed
    /\ \A c \in Calls : pc[c] # "idle" => req[c].Operation = Create

\* C10: a request of the webhook's kind that is not a create returns while
\* its namespace holds an instance that is not being deleted.
C10_NonCreateOnOccupied ==
    /\ HandleReturned
    /\ response.req.Operation # Create
    /\ w.gvk = ObjectGVK
    /\ response.req.Kind = w.gvk
    /\ store[response.req.Namespace].live > 0
    /\ InScope(response.req.Namespace, w.object.Namespace)

\* C11: a request whose kind differs from the webhook's in the group, the
\* version or the kind is allowed without any list query, whatever the store
\* holds; no pending call carries such a request.
C11_OtherKindAllowed ==
    /\ (HandleReturned /\ response.req.Kind # w.gvk) =>
          /\ response.verdict = Allowed("")
          /\ ~ response.listed
    /\ \A c \in Calls : pc[c] = "listing" => req[c].Kind = w.gvk

\* C11: a create that differs from the webhook's kind in the version alone
\* returns while its namespace holds an instance that is not being deleted.
C11_OtherVersionOnOccupied ==
    /\ HandleReturned
    /\ w.gvk = ObjectGVK
    /\ response.req.Operation = Create
    /\ response.req.Kind = [ObjectGVK EXCEPT !.Version = <<"v", "2">>]
    /\ store[response.req.Namespace].live > 0
    /\ InScope(response.req.Namespace, w.object.Namespace)

\* A step of Handle: a call returns or panics in this step, or a call starts
\* to wait for its list.
HandleStep ==
    \/ response'.kind \in {"returned", "panicked"}
    \/ \E c \in Calls : pc[c] = "idle" /\ pc'[c] = "listing"

\* C12: no step of Handle, whatever it returns, changes the store: the
\* instances and their deletion marks are after the step what they were before.
C12_HandleLeavesStore ==
    [][ HandleStep => store' = store ]_vars

\* C12: a Handle call returns a denial while the store holds instances, one
\* of them being deleted.
C12_DeniedOnPopulatedStore ==
    /\ ListedReturned
    /\ IsDeny(response.verdict)
    /\ \E n \in Namespaces : store[n].deleting > 0
    /\ \E n \in Namespaces : store[n].live > 0

\* The step into this state derived the routes of two kinds of one group and
\* version.
PathsOfOneGroupVersion ==
    /\ response.kind = "paths"
    /\ response.gvk1.Group = response.gvk2.Group
    /\ response.gvk1.Version = response.gvk2.Version

\* C13, as claimed: the same kind always yields the same route, and two
\* different kinds of one group and version yield different routes.
C13_DifferentKindsDifferentPaths ==
    /\ (response.kind = "paths" /\ response.gvk1 = response.gvk2) =>
          response.path1 = response.path2
    /\ (PathsOfOneGroupVersion /\ response.gvk1.Kind # response.gvk2.Kind) =>
          response.path1 # response.path2

\* C13, amended: the same kind always yields the same route, and two kinds of
\* one group and version that differ by more than letter case yield different
\* routes.  Checked under PathSpec.
C13_KindsApartFromCaseDifferentPaths ==
    /\ (response.kind = "paths" /\ response.gvk1 = response.gvk2) =>
          response.path1 = response.path2
    /\ ( /\ PathsOfOneGroupVersion
         /\ ToLower(response.gvk1.Kind) # ToLower(response.gvk2.Kind) ) =>
          response.path1 # response.path2

\* C13: the routes of two kinds of one group and version that differ in a
\* letter have been derived.
C13_TwoKindsDerived ==
    /\ PathsOfOneGroupVersion
    /\ response.gvk1.Kind = <<"W">>
    /\ response.gvk2.Kind = <<"X">>
    /\ response.path1 # response.path2

\* The error of the scheme's lookup for a manager whose scheme does not know
\* the object's type.
LookupError == GVKForObject([name |-> "mgr0", known |-> FALSE]).err

\* C14: when the scheme's lookup of the object's kind fails, SetupWithManager
\* returns the lookup's error and no handler is registered under any route,
\* then or later; it returns no error only when the lookup found the kind.
C14_LookupFailureRegistersNothing ==
    /\ response.kind = "setup" =>
          /\ response.err # Nil <=> w.gvk = ZeroGVK
          /\ response.err # Nil => response.err = LookupError /\ routes = {}
    /\ w.gvk = ZeroGVK => routes = {}

\* C14: SetupWithManager has returned the error of a failed lookup.
C14_SetupFailed ==
    /\ response.kind = "setup"
    /\ response.err = LookupError
    /\ w.mgr = "mgr0"

CreateOfKind(r, g) == r.Operation = Create /\ r.Kind = g

\* C16: a Handle call issues at most one list query: a call that returns has
\* issued one exactly when its request is a create of the webhook's kind (on
\* a webhook without client that one call of List panics), a waiting call has
\* one query pending, the answer to it, failed or not, ends the call in the
\* same step, and a failure is logged only by the step that returns it.
C16_OneListPerCall ==
    [][ /\ response'.kind = "returned" =>
              (response'.listed <=> CreateOfKind(response'.req, w'.gvk))
        /\ response'.kind = "panicked" =>
              CreateOfKind(response'.req, w'.gvk) /\ w'.cli = Nil
        /\ logged' # << >> =>
              /\ response'.kind = "returned"
              /\ response'.listed
              /\ response'.result.err = logged'[1].err
        /\ \A c \in Calls :
              /\ pc'[c] = "listing" <=> query'[c] # NoQuery
              /\ (pc[c] # "listing" /\ pc'[c] = "listing") =>
                    pc[c] = "idle" /\ CreateOfKind(req'[c], w'.gvk)
              /\ (pc[c] = "listing" /\ pc'[c] = "listing") =>
                    query'[c] = query[c] /\ req'[c] = req[c]
              /\ (pc[c] = "listing" /\ pc'[c] # "listing") =>
                    /\ response'.kind = "returned"
                    /\ response'.listed
                    /\ response'.req = req[c] ]_vars

\* C16: a create of the webhook's kind returns the failure of its one list,
\* and its call waits no more.
C16_FailedListReturned ==
    /\ CreateReturned
    /\ response.listed
    /\ response.result.err \in StoreErrors
    /\ IsError(response.verdict)
    /\ \A c \in Calls : pc[c] = "idle"


\* C17: the webhook carries nothing from one Handle call to the next: no step
\* of Handle changes the webhook or its routes, and a returned verdict is
\* computed from the request of the call and the list result returned to it
\* (with the kind the webhook was set up for), whatever was returned before.
C17_NoMemoryBetweenCalls ==
    [][ /\ HandleStep => w' = w /\ routes' = routes
        /\ response'.kind = "returned" =>
              response'.verdict =
                 IF CreateOfKind(response'.req, w.gvk)
                 THEN Respond(ValidateCreate(response'.result))
                 ELSE Allowed("") ]_vars

\* C17: a call is allowed on its list while every other call has been
\* allowed before it.
C17_AllowedAfterAllowed ==
    /\ ListedReturned
    /\ IsAllow(response.verdict)
    /\ \A c \in Calls : pc[c] = "admitted"


\* SetupWithManager has not completed successfully on the webhook: it was
\* never called, or the lookup of the kind failed.
NotSetUp == w.gvk = ZeroGVK

\* C18 as stated: a webhook on which SetupWithManager has not completed
\* successfully issues no list query and returns Allow for every request.
C18_NotSetUpAlwaysAllows ==
    NotSetUp =>
       /\ response.kind # "panicked"
       /\ HandleReturned =>
             ~ response.listed /\ response.verdict = Allowed("")
       /\ \A c \in Calls : pc[c] # "listing"

\* C18: a webhook on which SetupWithManager has not completed successfully
\* returns Allow without a list query for every request but a create whose
\* group, version and kind are all empty; for that one Handle goes on to
\* ValidateCreate, where List panics on a client never set and is called, its
\* result deciding the response, on the client a failed setup left behind.
C18_NotSetUpAllowsAllButEmptyKind ==
    NotSetUp =>
       /\ HandleReturned =>
             IF CreateOfKind(response.req, ZeroGVK)
             THEN /\ w.cli # Nil
                  /\ response.listed
                  /\ response.verdict = Respond(ValidateCreate(response.result))
             ELSE /\ ~ response.listed
                  /\ response.verdict = Allowed("")
       /\ response.kind = "panicked" =>
             w.cli = Nil /\ CreateOfKind(response.req, ZeroGVK)
       /\ \A c \in Calls :
             pc[c] = "listing" =>
                w.cli # Nil /\ CreateOfKind(req[c], ZeroGVK)

\* C18: after a setup that failed at the lookup, a create of the webhook's
\* kind is allowed without a list query.
C18_AllowedAfterFailedSetup ==
    /\ NotSetUp
    /\ w.cli # Nil
    /\ HandleReturned
    /\ response.req.Operation = Create
    /\ response.req.Kind = ObjectGVK
    /\ ~ response.listed
    /\ IsAllow(response.verdict)

====
